---- MODULE Spec2Model ----
(***************************************************************************)
(* A model of the cthaeh persisted schema (src/cthaeh/models.py): the      *)
(* header table with its parent / detached-parent columns and canonical    *)
(* flag, the ordered association tables, and the query_row_count           *)
(* aggregate.  A table is the set of its rows; an insert is accepted       *)
(* exactly when every constraint the table declares holds, and a refused   *)
(* insert reports the constraint that refused it.                          *)
(***************************************************************************)
EXTENDS Integers, Sequences, FiniteSets, TLC

(***************************************************************************)
(* Bounds of the model.                                                    *)
(***************************************************************************)
\* header hashes are 1..NumHashes; hash h > 1 has parent hash h \div 2
NumHashes == 6
\* the hashes of the rows a caller builds by hand are 1..NumRowHashes
NumRowHashes == 3
\* candidate idx values of blocktransaction and blockuncle rows are -1..MaxIdx
MaxIdx == 1
\* the join tables hold at most MaxJoinRows rows altogether
MaxJoinRows == 6

\* the tables of a block's body hold at most MaxBodyRows rows altogether
MaxBodyRows == 5
\* transaction hashes are 1..NumTransactions
NumTransactions == 2
\* block units are built for the headers 1..NumUnitHashes
NumUnitHashes == 3

(***************************************************************************)
(* Program constants.                                                      *)
(***************************************************************************)
\* the parent hash of the genesis header (32 zero bytes)
GENESIS_PARENT_HASH == 0
\* SQL NULL / Python None in a nullable column
NULL == -1
\* the greatest idx the logtopic table admits
MaxTopicIdx == 3

VARIABLES
    header,             \* table "header": set of rows, keyed by hash
    block,              \* table "block": set of rows, keyed by header_hash
    transaction,        \* table "transaction": set of rows, keyed by hash
    blocktransaction,   \* table "blocktransaction": set of rows
    blockuncle,         \* table "blockuncle": set of rows
    receipt,            \* table "receipt": set of rows
    log,                \* table "log": set of rows
    logtopic,           \* table "logtopic": set of rows
    topic,              \* table "topic": set of topic values
    last,               \* the last operation: its name, arguments and outcome
    writer,             \* the writer's open transaction: unit, rows flushed
    reader              \* the reader inside query_row_count: statement, sum

vars == <<header, block, transaction, blocktransaction, blockuncle,
          receipt, log, logtopic, topic, last, writer, reader>>

procs == <<writer, reader>>

\* no transaction is open
NoWriter == [open |-> FALSE, unit |-> <<>>, flushed |-> 0]

\* no query_row_count is running
NoReader == [pc |-> 0, start_at |-> 0, end_at |-> 0, total |-> 0]

bodyTables == <<block, transaction, blocktransaction, blockuncle,
                receipt, log, logtopic, topic>>

(***************************************************************************)
(* Generic helpers.                                                        *)
(***************************************************************************)
Range(s) == {s[i] : i \in 1..Len(s)}

\* the tables as one value
Tables ==
    [header           |-> header,
     block            |-> block,
     transaction      |-> transaction,
     blocktransaction |-> blocktransaction,
     blockuncle       |-> blockuncle,
     receipt          |-> receipt,
     log              |-> log,
     logtopic         |-> logtopic,
     topic            |-> topic]

\* the tables become st
SetTables(st) ==
    /\ header' = st.header
    /\ block' = st.block
    /\ transaction' = st.transaction
    /\ blocktransaction' = st.blocktransaction
    /\ blockuncle' = st.blockuncle
    /\ receipt' = st.receipt
    /\ log' = st.log
    /\ logtopic' = st.logtopic
    /\ topic' = st.topic

(***************************************************************************)
(* The headers an ingestion collaborator can hand over.  A hash is a       *)
(* content hash, so it fixes the parent hash, the block number and the     *)
(* difficulty of its header; the canonical flag is the caller's.           *)
(***************************************************************************)
Hashes == 1..NumHashes

ParentHashOf(h) == IF h = 1 THEN GENESIS_PARENT_HASH ELSE h \div 2

RECURSIVE BlockNumberOf(_)
BlockNumberOf(h) == IF h = 1 THEN 0 ELSE 1 + BlockNumberOf(h \div 2)

HeaderIR(h, canonical) ==
    [hash          |-> h,
     parent_hash   |-> ParentHashOf(h),
     block_number  |-> BlockNumberOf(h),
     difficulty    |-> h,
     is_canonical  |-> canonical,
     is_genesis    |-> (BlockNumberOf(h) = 0
                        /\ ParentHashOf(h) = GENESIS_PARENT_HASH)]

(***************************************************************************)
(* Header: the row, its derived properties and its constructor.            *)
(***************************************************************************)
HeaderRow(h, canonical, parent, detatched) ==
    [hash                   |-> h,
     is_canonical           |-> canonical,
     _parent_hash           |-> parent,
     _detatched_parent_hash |-> detatched,
     block_number           |-> BlockNumberOf(h),
     difficulty             |-> h]

\* Header.is_detatched
is_detatched(r) == r._parent_hash = NULL /\ r._detatched_parent_hash # NULL

\* the getter without its detached branch
parent_hash_undetatched(r) ==
    IF r._parent_hash # NULL /\ r._detatched_parent_hash # NULL
    THEN "TypeError"
    ELSE IF r._parent_hash = NULL
    THEN (IF r.block_number = 0 THEN GENESIS_PARENT_HASH ELSE NULL)
    ELSE r._parent_hash

\* Header.parent_hash (getter); "TypeError" stands for the raised exception
parent_hash(r) ==
    IF r._parent_hash # NULL /\ r._detatched_parent_hash # NULL
    THEN "TypeError"
    ELSE IF r._detatched_parent_hash # NULL
    THEN r._detatched_parent_hash
    ELSE IF r._parent_hash = NULL
    THEN (IF r.block_number = 0 THEN GENESIS_PARENT_HASH ELSE NULL)
    ELSE r._parent_hash

\* Header.is_genesis
is_genesis(r) ==
    /\ r.block_number = 0
    /\ r.is_canonical
    /\ parent_hash(r) = GENESIS_PARENT_HASH

\* the setter with its two branches exchanged
set_parent_hash_swapped(r, value) ==
    IF value = GENESIS_PARENT_HASH /\ r.block_number = 0
    THEN [r EXCEPT !._parent_hash = value]
    ELSE [r EXCEPT !._parent_hash = NULL]

\* Header.parent_hash (setter): the row after `r.parent_hash = value`
set_parent_hash(r, value) ==
    IF value = GENESIS_PARENT_HASH /\ r.block_number = 0
    THEN [r EXCEPT !._parent_hash = NULL]
    ELSE [r EXCEPT !._parent_hash = value]

\* from_ir without the genesis case of its parent_hash branch
from_ir_no_genesis(ir, detatched) ==
    [hash                   |-> ir.hash,
     is_canonical           |-> ir.is_canonical,
     _parent_hash           |-> IF detatched THEN NULL ELSE ir.parent_hash,
     _detatched_parent_hash |-> IF detatched THEN ir.parent_hash ELSE NULL,
     block_number           |-> ir.block_number,
     difficulty             |-> ir.difficulty]

\* Header.from_ir
from_ir(ir, detatched) ==
    [hash                   |-> ir.hash,
     is_canonical           |-> ir.is_canonical,
     _parent_hash           |-> IF detatched \/ ir.is_genesis
                                THEN NULL ELSE ir.parent_hash,
     _detatched_parent_hash |-> IF detatched THEN ir.parent_hash ELSE NULL,
     block_number           |-> ir.block_number,
     difficulty             |-> ir.difficulty]

(***************************************************************************)
(* The header table: lookups and the constraints an insert must meet.      *)
(***************************************************************************)
HeaderHashes(hs) == {r.hash : r \in hs}

HeaderByHash(hs, h) == CHOOSE r \in hs : r.hash = h

\* the header table without its _no_double_parent_hash constraint
NoDoubleParentHash_absent(r) == TRUE

\* CheckConstraint _no_double_parent_hash
NoDoubleParentHash(r) ==
    r._parent_hash = NULL \/ r._detatched_parent_hash = NULL

\* CheckConstraint _block_number_positive
BlockNumberPositive(r) == r.block_number >= 0

\* ForeignKey("header.hash") on _parent_hash
ParentForeignKey(hs, r) ==
    r._parent_hash = NULL \/ r._parent_hash \in HeaderHashes(hs)

\* primary key: hash
HeaderPrimaryKey(hs, r) == r.hash \notin HeaderHashes(hs)

HeaderInsertable(hs, r) ==
    /\ HeaderPrimaryKey(hs, r)
    /\ NoDoubleParentHash(r)
    /\ BlockNumberPositive(r)
    /\ ParentForeignKey(hs, r)

\* the relationship joined on the detached parent column
parent_by_detatched(hs, r) == {q \in hs : q.hash = r._detatched_parent_hash}

\* relationship Header.parent (backref of Header.children): the rows whose
\* hash is r's _parent_hash (none or one, as hash is the primary key)
parent(hs, r) == {q \in hs : q.hash = r._parent_hash}

(***************************************************************************)
(* ChainLinkage.                                                           *)
(***************************************************************************)
\* a reattachment that also copies the difficulty of the new header
Reattach_reweighed(r, new) ==
    IF is_detatched(r) /\ r._detatched_parent_hash = new.hash
    THEN [set_parent_hash([r EXCEPT !._detatched_parent_hash = NULL],
                          new.hash)
            EXCEPT !.difficulty = new.difficulty]
    ELSE r

\* reattachment of one pending header to the header newly stored as `new`
Reattach(r, new) ==
    IF is_detatched(r) /\ r._detatched_parent_hash = new.hash
    THEN set_parent_hash([r EXCEPT !._detatched_parent_hash = NULL], new.hash)
    ELSE r

\* resolve_pending: the table after the pass triggered by inserting `new`
resolve_pending(hs, new) == {Reattach(r, new) : r \in hs}

\* the table after storing row r and running the reconciliation pass
StoreHeader(hs, r) == resolve_pending(hs \cup {r}, r)

\* attach: the caller's choice of from_ir's is_detatched argument
MustDetatch(hs, ir) ==
    /\ ~ir.is_genesis
    /\ ir.parent_hash \notin HeaderHashes(hs)

\* the stored chain ending at r: r and the headers reached through parent
RECURSIVE Ancestry(_, _)
Ancestry(hs, r) ==
    IF parent(hs, r) = {}
    THEN {r.hash}
    ELSE {r.hash} \cup Ancestry(hs, CHOOSE q \in parent(hs, r) : TRUE)

\* the canonical rows (the filter Header.is_canonical.is_(True))
CanonicalHeaders(hs) == {r \in hs : r.is_canonical}

\* cumulative weight of the chain ending at hash h (total difficulty)
RECURSIVE TotalDifficulty(_)
TotalDifficulty(h) ==
    IF h = 1 THEN 1 ELSE h + TotalDifficulty(h \div 2)

\* the current canonical head: the heaviest canonical header
CanonicalHead(hs) ==
    CHOOSE r \in CanonicalHeaders(hs) :
        \A q \in CanonicalHeaders(hs) :
            TotalDifficulty(q.hash) <= TotalDifficulty(r.hash)

\* hashes common to the chains ending at the two heads
CommonAncestors(hs, new, old) == Ancestry(hs, new) \cap Ancestry(hs, old)

\* reorganize without the comparison of the two chains' weights
Reorganized_unweighed(hs, new_head) ==
    LET old == CanonicalHead(hs)
    IN  IF CanonicalHeaders(hs) = {}
        THEN hs
        ELSE IF CommonAncestors(hs, new_head, old) = {}
        THEN hs
        ELSE LET common  == CommonAncestors(hs, new_head, old)
                 oldPath == Ancestry(hs, old) \ common
                 newPath == Ancestry(hs, new_head) \ common
             IN  {IF r.hash \in oldPath
                  THEN [r EXCEPT !.is_canonical = FALSE]
                  ELSE IF r.hash \in newPath
                  THEN [r EXCEPT !.is_canonical = TRUE]
                  ELSE r : r \in hs}

\* reorganize: the header table after reorganize(new_head)
Reorganized(hs, new_head) ==
    LET old == CanonicalHead(hs)
    IN  IF CanonicalHeaders(hs) = {}
        THEN hs
        ELSE IF TotalDifficulty(new_head.hash) <= TotalDifficulty(old.hash)
        THEN hs
        ELSE IF CommonAncestors(hs, new_head, old) = {}
        THEN hs
        ELSE LET common  == CommonAncestors(hs, new_head, old)
                 oldPath == Ancestry(hs, old) \ common
                 newPath == Ancestry(hs, new_head) \ common
             IN  {IF r.hash \in oldPath
                  THEN [r EXCEPT !.is_canonical = FALSE]
                  ELSE IF r.hash \in newPath
                  THEN [r EXCEPT !.is_canonical = TRUE]
                  ELSE r : r \in hs}

(***************************************************************************)
(* The other tables: rows and the constraints an insert must meet.  Each   *)
(* ...Error operator names the constraint that refuses the row, or "ok".   *)
(***************************************************************************)
BlockRow(h) == [header_hash |-> h]

TransactionRow(t, b) == [hash |-> t, block_header_hash |-> b]

BlockTransactionRow(i, b, t) ==
    [idx |-> i, block_header_hash |-> b, transaction_hash |-> t]

BlockUncleRow(i, b, u) ==
    [idx |-> i, block_header_hash |-> b, uncle_hash |-> u]

ReceiptRow(t, b) == [transaction_hash |-> t, block_header_hash |-> b]

LogRow(i, t, b) ==
    [idx |-> i, transaction_hash |-> t, block_header_hash |-> b]

LogTopicRow(i, v, l) ==
    [idx                   |-> i,
     topic_topic           |-> v,
     log_idx               |-> l.idx,
     log_transaction_hash  |-> l.transaction_hash,
     log_block_header_hash |-> l.block_header_hash]

BlockHashes(st) == {b.header_hash : b \in st.block}

TransactionHashes(st) == {t.hash : t \in st.transaction}

\* CheckConstraint _idx_positive (blockuncle, blocktransaction, log)
IdxPositive(r) == r.idx >= 0

\* the logtopic check with its upper limit off by one
LimitFourTopicsPerLog_five(r) == r.idx >= 0 /\ r.idx <= MaxTopicIdx + 1

\* CheckConstraint _limit_4_topics_per_log
LimitFourTopicsPerLog(r) == r.idx >= 0 /\ r.idx <= MaxTopicIdx

\* the blocktransaction table without its unique index on (idx, block)
BlockTransactionIdxUnique_absent(rows, r) == TRUE

\* Index ix_blocktransaction_idx_block_header_hash, unique
BlockTransactionIdxUnique(rows, r) ==
    ~\E q \in rows :
        q.idx = r.idx /\ q.block_header_hash = r.block_header_hash

\* primary key and Index ix_block_header_hash_transaction_hash, unique
BlockTransactionPairUnique(rows, r) ==
    ~\E q \in rows :
        /\ q.block_header_hash = r.block_header_hash
        /\ q.transaction_hash = r.transaction_hash

\* Index ix_blockuncle_idx_block_header_hash, unique
BlockUncleIdxUnique(rows, r) ==
    ~\E q \in rows :
        q.idx = r.idx /\ q.block_header_hash = r.block_header_hash

\* primary key and Index ix_block_header_hash_uncle_hash, unique
BlockUnclePairUnique(rows, r) ==
    ~\E q \in rows :
        /\ q.block_header_hash = r.block_header_hash
        /\ q.uncle_hash = r.uncle_hash

\* the log a logtopic row refers to, as a log key
LogKeyOf(r) ==
    LogRow(r.log_idx, r.log_transaction_hash, r.log_block_header_hash)

\* primary key of logtopic and its UniqueConstraint: (idx, log key)
LogTopicIdxUnique(rows, r) ==
    ~\E q \in rows : q.idx = r.idx /\ LogKeyOf(q) = LogKeyOf(r)

HeaderError(st, r) ==
    IF HeaderInsertable(st.header, r) THEN "ok" ELSE "IntegrityError"

BlockError(st, r) ==
    IF r \in st.block THEN "pk_block"
    ELSE IF r.header_hash \notin HeaderHashes(st.header) THEN "fk_header"
    ELSE "ok"

TransactionError(st, r) ==
    IF r.hash \in TransactionHashes(st) THEN "pk_transaction"
    ELSE IF r.block_header_hash # NULL
            /\ r.block_header_hash \notin BlockHashes(st)
    THEN "fk_block"
    ELSE "ok"

BlockTransactionError(st, r) ==
    IF ~IdxPositive(r) THEN "_idx_positive"
    ELSE IF ~BlockTransactionIdxUnique(st.blocktransaction, r)
    THEN "ix_blocktransaction_idx_block_header_hash"
    ELSE IF ~BlockTransactionPairUnique(st.blocktransaction, r)
    THEN "ix_block_header_hash_transaction_hash"
    ELSE IF r.block_header_hash \notin BlockHashes(st) THEN "fk_block"
    ELSE IF r.transaction_hash \notin TransactionHashes(st)
    THEN "fk_transaction"
    ELSE "ok"

BlockUncleError(st, r) ==
    IF ~IdxPositive(r) THEN "_idx_positive"
    ELSE IF ~BlockUncleIdxUnique(st.blockuncle, r)
    THEN "ix_blockuncle_idx_block_header_hash"
    ELSE IF ~BlockUnclePairUnique(st.blockuncle, r)
    THEN "ix_block_header_hash_uncle_hash"
    ELSE IF r.block_header_hash \notin BlockHashes(st) THEN "fk_block"
    ELSE IF r.uncle_hash \notin HeaderHashes(st.header) THEN "fk_header"
    ELSE "ok"

ReceiptError(st, r) ==
    IF r \in st.receipt THEN "uix_transaction_hash_block_header_hash"
    ELSE IF ~\E q \in st.blocktransaction :
                /\ q.transaction_hash = r.transaction_hash
                /\ q.block_header_hash = r.block_header_hash
    THEN "fk_blocktransaction"
    ELSE "ok"

LogError(st, r) ==
    IF ~IdxPositive(r) THEN "_idx_positive"
    ELSE IF r \in st.log THEN "uix_idx_transaction_hash_block_header_hash"
    ELSE IF ReceiptRow(r.transaction_hash, r.block_header_hash)
                \notin st.receipt
    THEN "fk_receipt"
    ELSE "ok"

TopicError(st, v) == IF v \in st.topic THEN "pk_topic" ELSE "ok"

LogTopicError(st, r) ==
    IF ~LimitFourTopicsPerLog(r) THEN "_limit_4_topics_per_log"
    ELSE IF ~LogTopicIdxUnique(st.logtopic, r)
    THEN "ix_idx_log_idx_log_transaction_hash_log_block_header_hash"
    ELSE IF r.topic_topic \notin st.topic THEN "fk_topic"
    ELSE IF LogKeyOf(r) \notin st.log THEN "fk_log"
    ELSE "ok"

\* EntityStore insert(entity): the refusing constraint, or "ok"
InsertError(st, e) ==
    CASE e.kind = "header"           -> HeaderError(st, e.row)
      [] e.kind = "block"            -> BlockError(st, e.row)
      [] e.kind = "transaction"      -> TransactionError(st, e.row)
      [] e.kind = "blocktransaction" -> BlockTransactionError(st, e.row)
      [] e.kind = "blockuncle"       -> BlockUncleError(st, e.row)
      [] e.kind = "receipt"          -> ReceiptError(st, e.row)
      [] e.kind = "log"              -> LogError(st, e.row)
      [] e.kind = "topic"            -> TopicError(st, e.row)
      [] e.kind = "logtopic"         -> LogTopicError(st, e.row)

\* the tables after an accepted insert
Inserted(st, e) ==
    IF e.kind = "header"
    THEN [st EXCEPT !.header = StoreHeader(@, e.row)]
    ELSE [st EXCEPT ![e.kind] = @ \cup {e.row}]

(***************************************************************************)
(* Ordered children: the relationships declared with order_by.             *)
(***************************************************************************)
\* ORDER BY idx over a set of join rows
RECURSIVE OrderByIdx(_)
OrderByIdx(rows) ==
    IF rows = {}
    THEN <<>>
    ELSE LET first == CHOOSE r \in rows : \A q \in rows : r.idx <= q.idx
         IN  <<first>> \o OrderByIdx(rows \ {first})

\* ORDER BY transaction_hash instead of idx
RECURSIVE OrderByTransactionHash(_)
OrderByTransactionHash(rows) ==
    IF rows = {}
    THEN <<>>
    ELSE LET first == CHOOSE r \in rows :
                        \A q \in rows : r.transaction_hash <= q.transaction_hash
         IN  <<first>> \o OrderByTransactionHash(rows \ {first})

\* Block.transactions ordered by the wrong column
transactions_by_hash(st, b) ==
    LET joined == OrderByTransactionHash(
                    {r \in st.blocktransaction :
                        /\ r.block_header_hash = b
                        /\ r.transaction_hash \in TransactionHashes(st)})
    IN  [i \in 1..Len(joined) |-> joined[i].transaction_hash]

\* Block.transactions: the hashes of the block's transactions, in order
transactions(st, b) ==
    LET joined == OrderByIdx(
                    {r \in st.blocktransaction :
                        /\ r.block_header_hash = b
                        /\ r.transaction_hash \in TransactionHashes(st)})
    IN  [i \in 1..Len(joined) |-> joined[i].transaction_hash]

\* Block.uncles: the hashes of the block's uncles, in order
uncles(st, b) ==
    LET joined == OrderByIdx(
                    {r \in st.blockuncle :
                        /\ r.block_header_hash = b
                        /\ r.uncle_hash \in HeaderHashes(st.header)})
    IN  [i \in 1..Len(joined) |-> joined[i].uncle_hash]

\* Log.topics: the topics of log l, in order
topics(st, l) ==
    LET joined == OrderByIdx(
                    {r \in st.logtopic :
                        LogKeyOf(r) = l /\ r.topic_topic \in st.topic})
    IN  [i \in 1..Len(joined) |-> joined[i].topic_topic]

(***************************************************************************)
(* query_row_count: the weighted item count of a block number range.       *)
(***************************************************************************)
\* filter(Header.block_number > start_at, Header.block_number <= end_at)
InRange(h, start_at, end_at) ==
    h.block_number > start_at /\ h.block_number <= end_at

num_headers(st, start_at, end_at) ==
    Cardinality({h \in st.header :
                    InRange(h, start_at, end_at) /\ h.is_canonical})

\* BlockUncle JOIN Block JOIN Header
num_uncles(st, start_at, end_at) ==
    Cardinality({<<u, b, h>> \in st.blockuncle \X st.block \X st.header :
                    /\ u.block_header_hash = b.header_hash
                    /\ b.header_hash = h.hash
                    /\ InRange(h, start_at, end_at)})

\* Transaction JOIN Block JOIN Header
num_transactions(st, start_at, end_at) ==
    Cardinality({<<t, b, h>> \in st.transaction \X st.block \X st.header :
                    /\ t.block_header_hash = b.header_hash
                    /\ b.header_hash = h.hash
                    /\ InRange(h, start_at, end_at)})

\* Block JOIN Header rows in range reached from Transaction.block_header_hash
TransactionBlocksInRange(st, t, start_at, end_at) ==
    {<<b, h>> \in st.block \X st.header :
        /\ t.block_header_hash = b.header_hash
        /\ b.header_hash = h.hash
        /\ InRange(h, start_at, end_at)}

\* Log JOIN Receipt JOIN Transaction JOIN Block JOIN Header
num_logs(st, start_at, end_at) ==
    Cardinality(
        {<<l, r, t, bh>> \in UNION
            {{<<l, r, t, bh>> :
                bh \in TransactionBlocksInRange(st, t, start_at, end_at)} :
             l \in st.log, r \in st.receipt, t \in st.transaction} :
            /\ l.transaction_hash = r.transaction_hash
            /\ l.block_header_hash = r.block_header_hash
            /\ r.transaction_hash = t.hash})

\* Receipt.transaction: the transactions reached from receipt r through
\* the blocktransaction table
ReceiptTransactions(st, r) ==
    {<<a, t>> \in st.blocktransaction \X st.transaction :
        /\ t.hash = a.transaction_hash
        /\ a.transaction_hash = r.transaction_hash
        /\ a.block_header_hash = r.block_header_hash}

\* LogTopic JOIN Log JOIN Receipt JOIN Transaction JOIN Block JOIN Header
num_topics(st, start_at, end_at) ==
    Cardinality(
        {<<lt, l, r, at, bh>> \in UNION
            {{<<lt, l, r, at, bh>> :
                bh \in TransactionBlocksInRange(st, at[2], start_at, end_at)} :
             lt \in st.logtopic, l \in st.log, r \in st.receipt,
             at \in st.blocktransaction \X st.transaction} :
            /\ LogKeyOf(lt) = l
            /\ ReceiptRow(l.transaction_hash, l.block_header_hash) = r
            /\ at \in ReceiptTransactions(st, r)})

query_row_count(st, start_at, end_at) ==
    num_headers(st, start_at, end_at) * 2
        + num_uncles(st, start_at, end_at) * 2
        + num_transactions(st, start_at, end_at) * 3
        + num_logs(st, start_at, end_at) * 2
        + num_topics(st, start_at, end_at)

(***************************************************************************)
(* Operations on the header table.                                         *)
(***************************************************************************)
\* EntityStore insert of one header row, followed by resolve_pending; a
\* rejected insert leaves every table as it was
InsertHeader(op, r) ==
    /\ IF HeaderInsertable(header, r)
       THEN /\ header' = StoreHeader(header, r)
            /\ last' = [op |-> op, arg |-> r, result |-> "ok"]
       ELSE /\ header' = header
            /\ last' = [op |-> op, arg |-> r, result |-> "IntegrityError"]
    /\ UNCHANGED <<bodyTables, procs>>

\* attach(header): the ingestion path, rows built by Header.from_ir
Attach(h, canonical) ==
    LET ir == HeaderIR(h, canonical)
    IN  InsertHeader("attach", from_ir(ir, MustDetatch(header, ir)))

\* session.add(Header(...)) of a row whose parent columns the caller chose
RawHeaderRowsOf(h) ==
    {HeaderRow(h, c, p, d) :
        c \in BOOLEAN,
        p \in {NULL, ParentHashOf(h)}, d \in {NULL, ParentHashOf(h)}}

RowHashes == 1..NumRowHashes

RawHeaderRows == UNION {RawHeaderRowsOf(h) : h \in RowHashes}

AddHeader(r) == InsertHeader("add_header", r)

\* reorganize(new_head) for a stored new head
Reorganize(h) ==
    /\ h \in HeaderHashes(header)
    /\ header' = Reorganized(header, HeaderByHash(header, h))
    /\ last' = [op |-> "reorganize", arg |-> h,
                result |-> IF header' = header THEN "noop" ELSE "ok"]
    /\ UNCHANGED <<bodyTables, procs>>

EmptyBody ==
    /\ block = {}
    /\ transaction = {}
    /\ blocktransaction = {}
    /\ blockuncle = {}
    /\ receipt = {}
    /\ log = {}
    /\ logtopic = {}
    /\ topic = {}

NoOp == [op |-> "none", arg |-> NULL, result |-> "ok"]

Init ==
    /\ header = {}
    /\ EmptyBody
    /\ last = NoOp
    /\ writer = NoWriter
    /\ reader = NoReader

\* the ingestion path: headers arrive in any order, on any fork
Next ==
    \/ \E h \in Hashes, c \in BOOLEAN : Attach(h, c)
    \/ \E h \in Hashes : Reorganize(h)

Spec == Init /\ [][Next]_vars

\* the header table written both by the ingestion path and row by row
NextRows ==
    \/ \E h \in RowHashes, c \in BOOLEAN : Attach(h, c)
    \/ \E r \in RawHeaderRows : AddHeader(r)
    \/ \E h \in RowHashes : Reorganize(h)

SpecRows == Init /\ [][NextRows]_vars

(***************************************************************************)
(* Operations on the other tables.                                         *)
(***************************************************************************)
JoinRowCount(st) ==
    Cardinality(st.blocktransaction) + Cardinality(st.blockuncle)
        + Cardinality(st.logtopic)

\* session.add(row) for one row of table `kind`, flushed on its own: the
\* row is stored, or refused with the tables left as they were
AddRow(kind, row) ==
    LET e   == [kind |-> kind, row |-> row]
        err == InsertError(Tables, e)
    IN  /\ last' = [op |-> kind, arg |-> NULL, result |-> err]
        /\ IF err = "ok"
           THEN SetTables(Inserted(Tables, e))
           ELSE UNCHANGED <<header, bodyTables>>
        /\ UNCHANGED procs

\* OrderedAssociation add(parent, child, index), transactions in a block
AddBlockTransaction(i, b, t) ==
    /\ JoinRowCount(Tables) < MaxJoinRows
    /\ AddRow("blocktransaction", BlockTransactionRow(i, b, t))

\* OrderedAssociation add(parent, child, index), uncles in a block
AddBlockUncle(i, b, u) ==
    /\ JoinRowCount(Tables) < MaxJoinRows
    /\ AddRow("blockuncle", BlockUncleRow(i, b, u))

\* OrderedAssociation add(parent, child, index), topics in a log
AddLogTopic(i, v, l) ==
    /\ JoinRowCount(Tables) < MaxJoinRows
    /\ AddRow("logtopic", LogTopicRow(i, v, l))

\* the idx values a caller tries
BlockIndices == -1..MaxIdx

TopicIndices == -1..(MaxTopicIdx + 1)

\* a store holding two headers with their blocks, two transactions, the
\* first of them in block 2 at idx 1 with a receipt and two logs, and one topic,
\* which the first log carries at idx 0 and 1
InitAssoc ==
    /\ header = {from_ir(HeaderIR(1, TRUE), FALSE),
                 from_ir(HeaderIR(2, TRUE), FALSE)}
    /\ block = {BlockRow(1), BlockRow(2)}
    /\ transaction = {TransactionRow(1, 2), TransactionRow(2, NULL)}
    /\ blocktransaction = {BlockTransactionRow(1, 2, 1)}
    /\ blockuncle = {}
    /\ receipt = {ReceiptRow(1, 2)}
    /\ log = {LogRow(0, 1, 2), LogRow(1, 1, 2)}
    /\ topic = {1}
    /\ logtopic = {LogTopicRow(0, 1, LogRow(0, 1, 2)),
                   LogTopicRow(1, 1, LogRow(0, 1, 2))}
    /\ last = NoOp
    /\ writer = NoWriter
    /\ reader = NoReader

NextAssoc ==
    \/ \E i \in BlockIndices, b \in BlockHashes(Tables),
          t \in TransactionHashes(Tables) : AddBlockTransaction(i, b, t)
    \/ \E i \in BlockIndices, b \in BlockHashes(Tables),
          u \in HeaderHashes(header) : AddBlockUncle(i, b, u)
    \/ \E i \in TopicIndices, v \in topic, l \in log : AddLogTopic(i, v, l)

SpecAssoc == InitAssoc /\ [][NextAssoc]_vars

\* the rows of every table but header and topic
BodyRowCount(st) ==
    Cardinality(st.transaction) + Cardinality(st.blocktransaction)
        + Cardinality(st.blockuncle) + Cardinality(st.receipt)
        + Cardinality(st.log) + Cardinality(st.logtopic)

\* session.add of one row of a block's body
AddBodyRow(kind, row) ==
    /\ BodyRowCount(Tables) < MaxBodyRows
    /\ AddRow(kind, row)

\* the monitoring collaborator reads the count of (start_at, end_at]
Query(start_at, end_at) ==
    /\ last' = [op     |-> "query_row_count",
                arg    |-> <<start_at, end_at>>,
                result |-> query_row_count(Tables, start_at, end_at)]
    /\ UNCHANGED <<header, bodyTables, procs>>

\* the headers of a chain 1, 2, 4 and of the fork 3 beside header 2, all
\* with their blocks, and one topic
InitMetrics ==
    /\ header = {from_ir(HeaderIR(h, h # 3), FALSE) : h \in 1..4}
    /\ block = {BlockRow(h) : h \in 1..4}
    /\ transaction = {}
    /\ blocktransaction = {}
    /\ blockuncle = {}
    /\ receipt = {}
    /\ log = {}
    /\ topic = {1}
    /\ logtopic = {}
    /\ last = NoOp
    /\ writer = NoWriter
    /\ reader = NoReader

MetricsTransactions == 1..NumTransactions

MetricsBlocks == 2..4

QueryStarts == 0..1

QueryEnds == 1..2

NextMetrics ==
    \/ \E t \in MetricsTransactions, b \in MetricsBlocks \cup {NULL} :
          AddBodyRow("transaction", TransactionRow(t, b))
    \/ \E b \in MetricsBlocks, t \in MetricsTransactions :
          AddBodyRow("blocktransaction", BlockTransactionRow(0, b, t))
    \/ \E b \in MetricsBlocks :
          AddBodyRow("blockuncle", BlockUncleRow(0, b, 3))
    \/ \E t \in MetricsTransactions, b \in MetricsBlocks :
          AddBodyRow("receipt", ReceiptRow(t, b))
    \/ \E t \in MetricsTransactions, b \in MetricsBlocks :
          AddBodyRow("log", LogRow(0, t, b))
    \/ \E l \in log : AddBodyRow("logtopic", LogTopicRow(0, 1, l))
    \/ \E start_at \in QueryStarts, end_at \in QueryEnds : Query(start_at, end_at)

SpecMetrics == InitMetrics /\ [][NextMetrics]_vars

(***************************************************************************)
(* The block unit: a header with its block, one transaction with receipt,  *)
(* log and topic, and the association rows, inserted under one savepoint.  *)
(***************************************************************************)
Entry(kind, row) == [kind |-> kind, row |-> row]

Defects ==
    {"none", "double_parent", "negative_idx", "no_receipt", "fifth_topic"}

\* the header row of the unit of header h
UnitHeader(hs, h, defect) ==
    LET ir == HeaderIR(h, TRUE)
    IN  IF defect = "double_parent"
        THEN HeaderRow(h, TRUE, ParentHashOf(h), ParentHashOf(h))
        ELSE from_ir(ir, MustDetatch(hs, ir))

\* the rows of the unit of header h with transaction t, whose log carries
\* a topic of its own, parents before children
Unit(hs, h, t, defect) ==
    <<Entry("header", UnitHeader(hs, h, defect)),
      Entry("block", BlockRow(h)),
      Entry("transaction", TransactionRow(t, h)),
      Entry("topic", t),
      Entry("blocktransaction",
            BlockTransactionRow(IF defect = "negative_idx" THEN -1 ELSE 0,
                                h, t))>>
    \o (IF defect = "no_receipt"
        THEN <<>>
        ELSE <<Entry("receipt", ReceiptRow(t, h))>>)
    \o <<Entry("log", LogRow(0, t, h)),
         Entry("logtopic",
               LogTopicRow(IF defect = "fifth_topic" THEN MaxTopicIdx + 1
                           ELSE 0,
                           t, LogRow(0, t, h)))>>

\* session.add_all(rows) followed by the flush: the rows are inserted one
\* after the other until one is refused
RECURSIVE Flushed(_, _)
Flushed(st, rows) ==
    IF rows = <<>>
    THEN [tables |-> st, result |-> "ok"]
    ELSE LET err == InsertError(st, Head(rows))
         IN  IF err = "ok"
             THEN Flushed(Inserted(st, Head(rows)), Tail(rows))
             ELSE [tables |-> st, result |-> err]

\* a savepoint that is left open when the flush fails
begin_nested_no_rollback(st, rows) == Flushed(st, rows)

\* with session.begin_nested(): the savepoint is released when every row
\* was accepted and rolled back when one was refused
begin_nested(st, rows) ==
    LET done == Flushed(st, rows)
    IN  IF done.result = "ok"
        THEN done
        ELSE [tables |-> st, result |-> done.result]

\* EntityStore insert of a full block as one unit
InsertUnit(rows) ==
    LET done == begin_nested(Tables, rows)
    IN  /\ last' = [op |-> "unit", arg |-> rows, result |-> done.result]
        /\ SetTables(done.tables)
        /\ UNCHANGED procs

UnitHashes == 1..NumUnitHashes

UnitTransactions == 1..NumTransactions

NextUnit ==
    \E h \in UnitHashes, t \in UnitTransactions, defect \in Defects :
        InsertUnit(Unit(header, h, t, defect))

SpecUnit == Init /\ [][NextUnit]_vars

(***************************************************************************)
(* The writer applying a block unit row by row inside one transaction,     *)
(* and a reader running the statements of query_row_count meanwhile.       *)
(***************************************************************************)
\* the tables as the writer's open transaction sees them
WorkingCopy(st, w) == Flushed(st, SubSeq(w.unit, 1, w.flushed)).tables

\* a reader that sees the rows flushed by a transaction still open
Visible_uncommitted(st, w) == WorkingCopy(st, w)

\* the tables a statement of another session sees: the committed rows
Visible(st, w) == st

\* the writer opens a transaction for the rows of a unit
Begin(rows) ==
    /\ ~writer.open
    /\ writer' = [open |-> TRUE, unit |-> rows, flushed |-> 0]
    /\ UNCHANGED <<header, bodyTables, last, reader>>

\* the next row of the unit is flushed; a refused row rolls back
FlushNext ==
    /\ writer.open
    /\ writer.flushed < Len(writer.unit)
    /\ LET err == InsertError(WorkingCopy(Tables, writer),
                              writer.unit[writer.flushed + 1])
       IN  IF err = "ok"
           THEN writer' = [writer EXCEPT !.flushed = @ + 1]
           ELSE writer' = NoWriter
    /\ UNCHANGED <<header, bodyTables, last, reader>>

\* every row was accepted: the transaction commits
Commit ==
    /\ writer.open
    /\ writer.flushed = Len(writer.unit)
    /\ SetTables(WorkingCopy(Tables, writer))
    /\ writer' = NoWriter
    /\ UNCHANGED <<last, reader>>

\* the k-th count of query_row_count with its weight
Statement(k, st, start_at, end_at) ==
    CASE k = 1 -> num_headers(st, start_at, end_at) * 2
      [] k = 2 -> num_uncles(st, start_at, end_at) * 2
      [] k = 3 -> num_transactions(st, start_at, end_at) * 3
      [] k = 4 -> num_logs(st, start_at, end_at) * 2
      [] k = 5 -> num_topics(st, start_at, end_at)

\* query_row_count is called and runs its first count
StartQuery(start_at, end_at) ==
    /\ reader.pc = 0
    /\ reader' = [pc       |-> 1,
                  start_at |-> start_at,
                  end_at   |-> end_at,
                  total    |-> Statement(1, Visible(Tables, writer),
                                         start_at, end_at)]
    /\ UNCHANGED <<header, bodyTables, last, writer>>

\* query_row_count runs its next count
NextStatement ==
    /\ reader.pc \in 1..4
    /\ reader' = [reader EXCEPT
                    !.pc    = @ + 1,
                    !.total = @ + Statement(reader.pc + 1,
                                            Visible(Tables, writer),
                                            reader.start_at, reader.end_at)]
    /\ UNCHANGED <<header, bodyTables, last, writer>>

\* query_row_count returns its sum
Return ==
    /\ reader.pc = 5
    /\ reader' = NoReader
    /\ UNCHANGED <<header, bodyTables, last, writer>>

\* the ways a unit of the concurrent writer is refused
WriterDefects == {"none", "fifth_topic"}

NextReaders ==
    \/ \E h \in UnitHashes, t \in UnitTransactions, defect \in WriterDefects :
          Begin(Unit(header, h, t, defect))
    \/ FlushNext
    \/ Commit
    \/ \E start_at \in QueryStarts, end_at \in QueryEnds :
          StartQuery(start_at, end_at)
    \/ NextStatement
    \/ Return

SpecReaders == Init /\ [][NextReaders]_vars

(***************************************************************************)
(* Every operation of the core over one store.                             *)
(***************************************************************************)
\* the ways a unit of the core is refused
CoreDefects == {"none", "negative_idx"}

NextCore ==
    \/ \E h \in RowHashes, c \in BOOLEAN : Attach(h, c)
    \/ \E h \in RowHashes : Reorganize(h)
    \/ \E h \in RowHashes : AddBodyRow("block", BlockRow(h))
    \/ \E h \in RowHashes, defect \in CoreDefects :
          InsertUnit(Unit(header, h, 1, defect))
    \/ \E start_at \in QueryStarts : Query(start_at, start_at + 1)

SpecCore == Init /\ [][NextCore]_vars

(***************************************************************************)
(* Properties of the header table and of ChainLinkage.                     *)
(***************************************************************************)
IsHeaderInsert(l) == l.op \in {"attach", "add_header"}

HasBothParents(r) == r._parent_hash # NULL /\ r._detatched_parent_hash # NULL

\* the hashes of the chain that ends at hash h, genesis included
RECURSIVE ChainOf(_)
ChainOf(h) == IF h = 1 THEN {1} ELSE {h} \cup ChainOf(h \div 2)

\* every header of the chain ending at h is stored with its parent resolved
ChainAttached(hs, h) ==
    \A a \in ChainOf(h) :
        /\ a \in HeaderHashes(hs)
        /\ a # 1 => HeaderByHash(hs, a)._parent_hash = ParentHashOf(a)

\* C1: an insert of a header row that carries both a resolved and a detached
\* parent hash is rejected with a constraint error and changes no table; no
\* stored row ever carries both.
C1_DoubleParentRejected ==
    /\ [](\A r \in header : ~HasBothParents(r))
    /\ [][(IsHeaderInsert(last') /\ HasBothParents(last'.arg))
            => /\ last'.result = "IntegrityError"
               /\ header' = header
               /\ UNCHANGED bodyTables]_vars

\* a double-parent row was refused although its hash was free and its
\* resolved parent is stored: the parent-exclusivity check alone refused it
C1_Witness ==
    /\ last.op = "add_header"
    /\ HasBothParents(last.arg)
    /\ last.result = "IntegrityError"
    /\ last.arg.hash \notin HeaderHashes(header)
    /\ last.arg._parent_hash \in HeaderHashes(header)

\* C2: a stored header that is detached stays detached, with the same
\* detached parent hash, over every step except the successful insert of a
\* header whose hash is that detached parent hash; after that insert it is
\* no longer detached and its resolved parent hash is the formerly detached
\* hash.
C2_DetatchedUntilParentArrives ==
    [][\A r \in header :
          is_detatched(r) =>
            LET after == HeaderByHash(header', r.hash)
            IN  IF /\ IsHeaderInsert(last')
                   /\ last'.result = "ok"
                   /\ last'.arg.hash = r._detatched_parent_hash
                THEN /\ ~is_detatched(after)
                     /\ after._parent_hash = r._detatched_parent_hash
                     /\ after._detatched_parent_hash = NULL
                ELSE /\ is_detatched(after)
                     /\ after._detatched_parent_hash = r._detatched_parent_hash
      ]_vars

\* the header just inserted is the resolved parent of a header stored before
\* it (a resolved child cannot be inserted before its parent)
C2_Witness ==
    /\ IsHeaderInsert(last)
    /\ last.result = "ok"
    /\ \E r \in header :
          /\ r._parent_hash = last.arg.hash
          /\ ~is_detatched(r)

\* C3: reorganize(new_head), run when the canonical headers are exactly the
\* chain of the current head and the attached chain of new_head is heavier,
\* leaves the old path non-canonical, the new path canonical, the common
\* ancestors canonical and untouched, and exactly one canonical header per
\* block number of the new chain; it changes no other column.
C3_ReorganizeFlipsPaths ==
    [][(/\ last'.op = "reorganize"
        /\ CanonicalHeaders(header) # {}
        /\ HeaderHashes(CanonicalHeaders(header))
              = ChainOf(CanonicalHead(header).hash)
        /\ ChainAttached(header, CanonicalHead(header).hash)
        /\ ChainAttached(header, last'.arg)
        /\ TotalDifficulty(last'.arg)
              > TotalDifficulty(CanonicalHead(header).hash))
       => LET old == ChainOf(CanonicalHead(header).hash)
              new == ChainOf(last'.arg)
          IN  /\ \A h \in old \ new : ~HeaderByHash(header', h).is_canonical
              /\ \A h \in new \ old : HeaderByHash(header', h).is_canonical
              /\ \A h \in new \cap old :
                    /\ HeaderByHash(header', h).is_canonical
                    /\ HeaderByHash(header', h) = HeaderByHash(header, h)
              /\ \A n \in 0..BlockNumberOf(last'.arg) :
                    Cardinality({r \in CanonicalHeaders(header') :
                                    r.block_number = n}) = 1
              /\ HeaderHashes(CanonicalHeaders(header')) = new
              /\ \A r \in header :
                    [HeaderByHash(header', r.hash)
                        EXCEPT !.is_canonical = r.is_canonical] = r
      ]_vars

\* a reorganize that flipped flags: the canonical headers are the chain of
\* the new head, which forked above genesis from a stored, now non-canonical
\* header
C3_Witness ==
    /\ last.op = "reorganize"
    /\ last.result = "ok"
    /\ HeaderHashes(CanonicalHeaders(header)) = ChainOf(last.arg)
    /\ \E r \in header :
          /\ ~r.is_canonical
          /\ r.hash \notin ChainOf(last.arg)
          /\ ParentHashOf(r.hash) \in ChainOf(last.arg) \ {1}

C10_ReorganizeIdempotent ==
    /\ [](\A r \in header :
            LET once == Reorganized(header, r)
            IN  Reorganized(once, HeaderByHash(once, r.hash)) = once)
    /\ [][(/\ last'.op = "reorganize"
           /\ HeaderByHash(header, last'.arg).is_canonical)
          => header' = header /\ UNCHANGED bodyTables]_vars

\* reorganize was run on the canonical head after a reorganization: it is a
\* no-op, and a stored sibling chain is non-canonical
C10_Witness ==
    /\ last.op = "reorganize"
    /\ last.result = "noop"
    /\ HeaderByHash(header, last.arg).is_canonical
    /\ HeaderHashes(CanonicalHeaders(header)) = ChainOf(last.arg)
    /\ \E r \in header : ~r.is_canonical /\ r.block_number > 0

(***************************************************************************)
(* Properties of the ordered associations.                                 *)
(***************************************************************************)
BlockTransactionsOf(st, b) ==
    {r \in st.blocktransaction : r.block_header_hash = b}

BlockUnclesOf(st, b) == {r \in st.blockuncle : r.block_header_hash = b}

LogTopicsOf(st, l) == {r \in st.logtopic : LogKeyOf(r) = l}

\* the stored idx of transaction t in block b
TransactionIdx(st, b, t) ==
    (CHOOSE r \in BlockTransactionsOf(st, b) : r.transaction_hash = t).idx

\* the stored idx of uncle u in block b
UncleIdx(st, b, u) ==
    (CHOOSE r \in BlockUnclesOf(st, b) : r.uncle_hash = u).idx

\* the rows a caller may try to add
BlockTransactionCandidates(st) ==
    {BlockTransactionRow(i, b, t) :
        i \in BlockIndices, b \in BlockHashes(st), t \in TransactionHashes(st)}

BlockUncleCandidates(st) ==
    {BlockUncleRow(i, b, u) :
        i \in BlockIndices, b \in BlockHashes(st),
        u \in HeaderHashes(st.header)}

LogTopicCandidates(st) ==
    {LogTopicRow(i, v, l) : i \in TopicIndices, v \in st.topic, l \in st.log}

\* C4: reading the transactions (the uncles) of a block returns exactly the
\* children associated with it, each once, in strictly ascending order of
\* their stored idx; no step changes or removes a stored association row.
C4_ChildrenInIndexOrder ==
    /\ [](\A b \in BlockHashes(Tables) :
            LET kids == transactions(Tables, b)
                rows == BlockTransactionsOf(Tables, b)
            IN  /\ Len(kids) = Cardinality(rows)
                /\ Range(kids) = {r.transaction_hash : r \in rows}
                /\ \A i, j \in 1..Len(kids) :
                      i < j => TransactionIdx(Tables, b, kids[i])
                                 < TransactionIdx(Tables, b, kids[j]))
    /\ [](\A b \in BlockHashes(Tables) :
            LET kids == uncles(Tables, b)
                rows == BlockUnclesOf(Tables, b)
            IN  /\ Len(kids) = Cardinality(rows)
                /\ Range(kids) = {r.uncle_hash : r \in rows}
                /\ \A i, j \in 1..Len(kids) :
                      i < j => UncleIdx(Tables, b, kids[i])
                                 < UncleIdx(Tables, b, kids[j]))
    /\ [][/\ blocktransaction \subseteq blocktransaction'
          /\ blockuncle \subseteq blockuncle']_vars

\* a block whose transactions read back in an order that is not the order
\* of their hashes, and a block with two uncles
C4_Witness ==
    /\ \E b \in BlockHashes(Tables) :
          LET kids == transactions(Tables, b)
          IN  Len(kids) >= 2 /\ kids[1] > kids[2]
    /\ \E b \in BlockHashes(Tables) : Len(uncles(Tables, b)) >= 2

\* C7: a logtopic row for a stored log and topic is accepted for every idx
\* in 0..3 not yet used under that log and refused by the range check for
\* idx 4 or more and for negative idx; stored logtopic idx values lie in
\* 0..3 and no log has more than 4 of them; blocktransaction and blockuncle
\* rows with a negative idx are refused by the range check; a refused add
\* changes no table.
C7_TopicIndexRange ==
    /\ [](\A r \in LogTopicCandidates(Tables) :
            /\ (r.idx \in 0..3 /\ ~\E q \in LogTopicsOf(Tables, LogKeyOf(r)) :
                                     q.idx = r.idx)
                  => LogTopicError(Tables, r) = "ok"
            /\ (r.idx < 0 \/ r.idx > 3)
                  => LogTopicError(Tables, r) = "_limit_4_topics_per_log")
    /\ [](\A r \in logtopic : r.idx \in 0..3)
    /\ [](\A l \in log :
            /\ Len(topics(Tables, l)) <= 4
            /\ Len(topics(Tables, l)) = Cardinality(LogTopicsOf(Tables, l)))
    /\ [](\A r \in BlockTransactionCandidates(Tables) :
            r.idx < 0 => BlockTransactionError(Tables, r) = "_idx_positive")
    /\ [](\A r \in BlockUncleCandidates(Tables) :
            r.idx < 0 => BlockUncleError(Tables, r) = "_idx_positive")
    /\ [](\A r \in blocktransaction \cup blockuncle : r.idx >= 0)
    /\ [][last'.result # "ok" => UNCHANGED <<header, bodyTables>>]_vars
    /\ [][(last'.op = "logtopic" /\ last'.result = "ok")
            => /\ logtopic \subseteq logtopic'
               /\ Cardinality(logtopic') = Cardinality(logtopic) + 1]_vars

\* a log carries topics at idx 0, 1, 2 and 3, and the last add of a topic
\* was refused by the range check
C7_Witness ==
    /\ last.op = "logtopic"
    /\ last.result = "_limit_4_topics_per_log"
    /\ \E l \in log : {r.idx : r \in LogTopicsOf(Tables, l)} = 0..3

\* C8: an add whose idx is already used under the same parent is refused
\* and changes no table, whatever idx values other parents use: a row with
\* a fresh non-negative idx (in 0..3 for topics), a fresh (parent, child)
\* pair and stored parent and child is accepted.  So idx values are
\* pairwise distinct within each block (blocktransaction, blockuncle) and
\* within each log (logtopic).
C8_DuplicateIndexRefused ==
    /\ [](\A r \in BlockTransactionCandidates(Tables) :
            LET used == \E q \in BlockTransactionsOf(Tables, r.block_header_hash) :
                            q.idx = r.idx
                pair == \E q \in BlockTransactionsOf(Tables, r.block_header_hash) :
                            q.transaction_hash = r.transaction_hash
            IN  /\ used => BlockTransactionError(Tables, r) # "ok"
                /\ (used /\ r.idx >= 0) => BlockTransactionError(Tables, r)
                        = "ix_blocktransaction_idx_block_header_hash"
                /\ (~used /\ ~pair /\ r.idx >= 0)
                        => BlockTransactionError(Tables, r) = "ok")
    /\ [](\A r \in BlockUncleCandidates(Tables) :
            LET used == \E q \in BlockUnclesOf(Tables, r.block_header_hash) :
                            q.idx = r.idx
                pair == \E q \in BlockUnclesOf(Tables, r.block_header_hash) :
                            q.uncle_hash = r.uncle_hash
            IN  /\ used => BlockUncleError(Tables, r) # "ok"
                /\ (used /\ r.idx >= 0) => BlockUncleError(Tables, r)
                        = "ix_blockuncle_idx_block_header_hash"
                /\ (~used /\ ~pair /\ r.idx >= 0)
                        => BlockUncleError(Tables, r) = "ok")
    /\ [](\A r \in LogTopicCandidates(Tables) :
            LET used == \E q \in LogTopicsOf(Tables, LogKeyOf(r)) :
                            q.idx = r.idx
            IN  /\ used => LogTopicError(Tables, r)
                  = "ix_idx_log_idx_log_transaction_hash_log_block_header_hash"
                /\ (~used /\ r.idx \in 0..3)
                        => LogTopicError(Tables, r) = "ok")
    /\ [](\A b \in BlockHashes(Tables) :
            /\ \A q, r \in BlockTransactionsOf(Tables, b) :
                  q.idx = r.idx => q = r
            /\ \A q, r \in BlockUnclesOf(Tables, b) :
                  q.idx = r.idx => q = r)
    /\ [](\A l \in log :
            \A q, r \in LogTopicsOf(Tables, l) : q.idx = r.idx => q = r)
    /\ [][last'.result # "ok" => UNCHANGED <<header, bodyTables>>]_vars

\* the last add was refused for a duplicate idx within its block, while two
\* blocks hold transactions, and two logs hold topics, at the same idx
C8_Witness ==
    /\ last.op = "blocktransaction"
    /\ last.result = "ix_blocktransaction_idx_block_header_hash"
    /\ \E q, r \in blocktransaction :
          q.idx = r.idx /\ q.block_header_hash # r.block_header_hash
    /\ \E q, r \in logtopic :
          q.idx = r.idx /\ LogKeyOf(q) # LogKeyOf(r)

(***************************************************************************)
(* Properties of query_row_count.                                          *)
(***************************************************************************)
\* block b's number lies in (start_at, end_at]
BlockInRange(st, b, start_at, end_at) ==
    \E h \in st.header : h.hash = b /\ InRange(h, start_at, end_at)

\* the count in which every row is counted under its own block: a
\* transaction under its block_header_hash, a log under the block of its
\* key, a topic association under the block of its log
RangeCount(st, start_at, end_at) ==
    2 * Cardinality({h \in st.header :
                        InRange(h, start_at, end_at) /\ h.is_canonical})
    + 2 * Cardinality({u \in st.blockuncle :
            BlockInRange(st, u.block_header_hash, start_at, end_at)})
    + 3 * Cardinality({t \in st.transaction :
            BlockInRange(st, t.block_header_hash, start_at, end_at)})
    + 2 * Cardinality({l \in st.log :
            BlockInRange(st, l.block_header_hash, start_at, end_at)})
    + Cardinality({lt \in st.logtopic :
            BlockInRange(st, lt.log_block_header_hash, start_at, end_at)})

\* C5: query_row_count(start, end) returns 2 * canonical headers + 2 * uncle
\* associations + 3 * transactions + 2 * logs + 1 * topic associations,
\* each counted when the number of its block (for a topic association, of
\* its log's block) is above start and at most end.
C5_Original ==
    last.op = "query_row_count"
        => last.result = RangeCount(Tables, last.arg[1], last.arg[2])

(***************************************************************************)
(* Properties of the block unit.                                           *)
(***************************************************************************)
\* the row of entry e is stored in tables st
Stored(st, e) ==
    IF e.kind = "header"
    THEN e.row.hash \in HeaderHashes(st.header)
    ELSE e.row \in st[e.kind]

\* C6: the insert of a block unit is all-or-nothing: when one of its rows
\* is refused, every table is as it was before, so no row of the unit that
\* was not stored before is stored after; when none is refused, every row
\* of the unit is stored.
C6_UnitAllOrNothing ==
    [][last'.op = "unit" =>
        IF last'.result = "ok"
        THEN \A i \in 1..Len(last'.arg) :
                /\ ~Stored(Tables, last'.arg[i])
                /\ Stored(Tables', last'.arg[i])
        ELSE /\ UNCHANGED <<header, bodyTables>>
             /\ \A i \in 1..Len(last'.arg) :
                   ~Stored(Tables, last'.arg[i])
                       => ~Stored(Tables', last'.arg[i])]_vars

\* a unit was refused at its last row, after its header, in a store that
\* holds another unit
C6_Witness ==
    /\ last.op = "unit"
    /\ last.result = "_limit_4_topics_per_log"
    /\ header # {}
    /\ last.arg[1].row.hash \notin HeaderHashes(header)

(***************************************************************************)
(* Properties of the stored header rows and of their derived properties.   *)
(***************************************************************************)
HasNoParent(r) == r._parent_hash = NULL /\ r._detatched_parent_hash = NULL

\* C11: every stored header records a resolved parent hash, or a detached
\* parent hash, or neither, never both; and a stored header that records
\* neither has block_number 0.
C11_Original ==
    \A r \in header :
        /\ ~HasBothParents(r)
        /\ HasNoParent(r) => r.block_number = 0

\* C12: every stored header with block_number 0 records neither a resolved
\* nor a detached parent hash and is canonical.
C12_Original ==
    \A r \in header :
        r.block_number = 0 => HasNoParent(r) /\ r.is_canonical

\* C13: is_genesis of a header is true exactly when its block_number is 0,
\* it is canonical, and it records neither a resolved nor a detached parent
\* hash.
C13_Original ==
    \A r \in header :
        is_genesis(r) <=>
            (r.block_number = 0 /\ r.is_canonical /\ HasNoParent(r))

\* C14: parent_hash of a stored header is its detached parent hash when it
\* is detached, its resolved parent hash when it has one, and the genesis
\* parent hash when it records neither and has block_number 0; it is never
\* a hash that the header does not record.
C14_ParentHashIsTheRecordedOne ==
    \A r \in header :
        /\ is_detatched(r) => parent_hash(r) = r._detatched_parent_hash
        /\ r._parent_hash # NULL => parent_hash(r) = r._parent_hash
        /\ (HasNoParent(r) /\ r.block_number = 0)
              => parent_hash(r) = GENESIS_PARENT_HASH
        /\ (HasNoParent(r) /\ r.block_number # 0) => parent_hash(r) = NULL
        /\ ~HasNoParent(r)
              => parent_hash(r) \in
                    {r._parent_hash, r._detatched_parent_hash} \ {NULL}

\* the store holds a detached header, a header with a resolved parent and
\* a header of block_number 0 that records neither
C14_Witness ==
    /\ \E r \in header : is_detatched(r)
    /\ \E r \in header : r._parent_hash # NULL
    /\ \E r \in header : HasNoParent(r) /\ r.block_number = 0

(***************************************************************************)
(* Properties of the reader beside the writer.                             *)
(***************************************************************************)
\* of the rows of the unit that store `base` lacks, store `seen` holds
\* either all or none
AllOrNone(seen, base, rows) ==
    LET new == {i \in 1..Len(rows) : ~Stored(base, rows[i])}
    IN  \/ \A i \in new : Stored(seen, rows[i])
        \/ \A i \in new : ~Stored(seen, rows[i])

BodyKinds ==
    {"block", "transaction", "blocktransaction", "blockuncle", "receipt",
     "log", "logtopic", "topic"}

\* the parent columns of header rows r and q differ
ParentFieldsDiffer(r, q) ==
    \/ q._parent_hash # r._parent_hash
    \/ q._detatched_parent_hash # r._detatched_parent_hash

\* C16: no operation changes or removes a stored row, but for the
\* is_canonical, resolved parent and detached parent fields of header rows;
\* is_canonical changes only in a reorganize, the parent fields only in
\* the reattachment that follows the insert of the header a detached row
\* waits for; inserts of other rows change no stored header, and
\* query_row_count changes no table.
C16_OnlyChainLinkageMutates ==
    [][/\ \A k \in BodyKinds : Tables[k] \subseteq Tables'[k]
       /\ \A r \in header :
             \E q \in header' :
                /\ q.hash = r.hash
                /\ q.block_number = r.block_number
                /\ q.difficulty = r.difficulty
                /\ q.is_canonical # r.is_canonical
                      => last'.op = "reorganize"
                /\ ParentFieldsDiffer(r, q)
                      => /\ last'.op \in {"attach", "unit"}
                         /\ last'.result = "ok"
                         /\ is_detatched(r)
                         /\ r._detatched_parent_hash
                               \in HeaderHashes(header') \ HeaderHashes(header)
                         /\ q._parent_hash = r._detatched_parent_hash
                         /\ q._detatched_parent_hash = NULL
       /\ last'.op \in BodyKinds => header' = header
       /\ last'.op = "query_row_count" => UNCHANGED <<header, bodyTables>>
      ]_vars

\* a reorganize has just flipped headers in a store that holds a header
\* with a resolved parent, a block added on its own and the rows of a unit
C16_Witness ==
    /\ last.op = "reorganize"
    /\ last.result = "ok"
    /\ \E r \in header : r._parent_hash # NULL /\ ~r.is_canonical
    /\ Cardinality(block) > 1
    /\ logtopic # {}

====
